---- MODULE Spec2Model ----
(***************************************************************************)
(* Forum backend: like ledger, comment tree, review state machine and the  *)
(* materialized counters kept by the service layer (app/service) on top   *)
(* of the SQLAlchemy repositories (app/storage).                           *)
(*                                                                         *)
(* Every repository call commits on its own, so a service function is a    *)
(* fixed sequence of committed repository steps.  The operations below are *)
(* the service functions run one at a time.                                *)
(***************************************************************************)
EXTENDS Integers, FiniteSets, Sequences, TLC

\* ------------------------------------------------------------------ ids --
\* NULL is the SQL NULL / Python None of a nullable column or argument.
NULL == 0
\* deleted_at / reviewed_at hold a timestamp; SET is "some timestamp".
SET == 1
\* an identifier that names no row of any table (a never-issued UUID)
NoSuchId == 99

\* bounds of the model
NumUsers == 2
MaxComments == 3
MaxCount == 3
MaxReviewComments == 1

Uids == 1..NumUsers
Pids == {1}
Cids == 1..MaxComments

POST == 0
COMMENT == 1

\* ------------------------------------------------------------ variables --
VARIABLES
  users,            \* users table: uid -> [deleted_at]
  posts,            \* posts table: pid -> [visibility, publish_status, review_status, reviewed_at, deleted_at]
  post_stats,       \* post_stats table: pid -> [like_count, comment_count]
  comments,         \* comments table: cid -> row (domain = existing rows)
  comment_contents, \* comment_contents table: the set of comment ids that own a content row
  next_cid,         \* number of comment ids issued so far (cids are never reused)
  likes,            \* likes table: a set of rows
  last,             \* the last service call and what it returned / raised
  lul,              \* history: progress of a like / unlike / like sequence on one (user, target)
  sdr,              \* history: the counters before a soft delete that a restore follows
  follows,          \* follows table: a set of rows
  user_stats,       \* user_stats table: uid -> [following_count, followers_count]
  procs             \* requests in flight: worker -> the call's position and what it has read

vars == <<users, posts, post_stats, comments, comment_contents, next_cid, likes, last, lul,
         sdr, follows, user_stats, procs>>

Max(a, b) == IF a >= b THEN a ELSE b

\* --------------------------------------------------------------- lookups --
\* SQLAlchemyUserRepository._base_query + get_user_by_uid: soft-deleted users are filtered out
get_user_by_uid(uid) ==
  uid \in DOMAIN users /\ users[uid].deleted_at = NULL

\* SQLAlchemyPostRepository._viewer_query + viewer_get_post_by_pid
viewer_get_post_by_pid(pid) ==
  /\ pid \in DOMAIN posts
  /\ posts[pid].deleted_at = NULL
  /\ posts[pid].publish_status = "PUBLISHED"
  /\ posts[pid].review_status = "APPROVED"
  /\ posts[pid].visibility = "PUBLIC"

\* SQLAlchemyPostRepository._review_query + get_post_review_by_pid (row lookup only)
review_query_post(pid) ==
  /\ pid \in DOMAIN posts
  /\ posts[pid].deleted_at = NULL
  /\ posts[pid].publish_status = "PUBLISHED"

\* a user query that forgets the status filter (FOLDED comments stay visible)
user_query_no_status(c) ==
  /\ c.deleted_at = NULL
  /\ c.review_status # "REJECTED"

\* SQLAlchemyCommentRepository._user_query
user_query(c) ==
  /\ c.deleted_at = NULL
  /\ c.status = "NORMAL"
  /\ c.review_status # "REJECTED"

\* SQLAlchemyCommentRepository._reviewer_query
reviewer_query(c) == c.deleted_at = NULL

\* SQLAlchemyCommentRepository.get_comment_by_cid_for_user (found / not found)
get_comment_by_cid_for_user(cid) ==
  cid \in DOMAIN comments /\ user_query(comments[cid])

\* a lookup for moderation that leaves out soft-deleted rows (REVIEWER scope)
get_comment_by_cid_for_reviewer(cid) ==
  cid \in DOMAIN comments /\ reviewer_query(comments[cid])

\* SQLAlchemyCommentRepository.get_comment_by_cid_for_admin (found / not found)
get_comment_by_cid_for_admin(cid) == cid \in DOMAIN comments

\* ------------------------------------------------------------- counters --
\* SQLAlchemyPostStatsRepository.update_likes: like_count := max(like_count + step, 0)
update_likes(stats, post_id, step) ==
  IF post_id \in DOMAIN stats
  THEN [stats EXCEPT ![post_id].like_count = Max(@ + step, 0)]
  ELSE stats

\* an update of the post's comment_count that stores old + step without the floor
update_comments_no_floor(stats, post_id, step) ==
  IF post_id \in DOMAIN stats
  THEN [stats EXCEPT ![post_id].comment_count = @ + step]
  ELSE stats

\* SQLAlchemyPostStatsRepository.update_comments: comment_count := max(comment_count + step, 0)
update_comments(stats, post_id, step) ==
  IF post_id \in DOMAIN stats
  THEN [stats EXCEPT ![post_id].comment_count = Max(@ + step, 0)]
  ELSE stats

\* SQLAlchemyCommentRepository.update_like_count: no row -> None, nothing written
update_like_count(cs, cid, step) ==
  IF cid \in DOMAIN cs
  THEN [cs EXCEPT ![cid].like_count = Max(@ + step, 0)]
  ELSE cs

\* SQLAlchemyCommentRepository.update_comment_count: no row -> None, nothing written
update_comment_count(cs, cid, step) ==
  IF cid \in DOMAIN cs
  THEN [cs EXCEPT ![cid].comment_count = Max(@ + step, 0)]
  ELSE cs

\* ---------------------------------------------------------- like ledger --
\* the rows of the likes table for one (user, target_type, target_id), any deleted_at
like_rows(ls, uid, tt, tid) ==
  {l \in ls : l.user_id = uid /\ l.target_type = tt /\ l.target_id = tid}

\* a lookup that skips soft-deleted rows (a query filtered on deleted_at IS NULL)
like_lookup_active(ls, uid, tt, tid) ==
  {l \in like_rows(ls, uid, tt, tid) : l.deleted_at = NULL}

\* the rows SQLAlchemyLikeRepository.like / cancel_like look up: _admin_query().filter(...)
like_lookup(ls, uid, tt, tid) == like_rows(ls, uid, tt, tid)

\* a fresh Like row (lid stands for the row's UUID: the serial of the row within its triple)
\* The insert is reached only when the lookup found no row for the triple, so the
\* unique constraint uq_likes_user_target never rejects it in calls run one at a time.
new_like(ls, uid, tt, tid) ==
  [user_id |-> uid, target_type |-> tt, target_id |-> tid, deleted_at |-> NULL,
   lid |-> Cardinality(like_rows(ls, uid, tt, tid)) + 1]

\* a like without the restore branch: any existing row counts as "already liked"
like_repo_like_no_restore(ls, uid, tt, tid) ==
  IF like_lookup(ls, uid, tt, tid) # {}
  THEN { [res |-> "AlreadyLiked", likes |-> ls] }
  ELSE { [res |-> "ok", likes |-> ls \cup {new_like(ls, uid, tt, tid)}] }

\* a like that reports success again on a row that is already active
like_repo_like_idempotent(ls, uid, tt, tid) ==
  LET found == like_lookup(ls, uid, tt, tid) IN
  IF found # {}
  THEN { [res |-> "ok", likes |-> (ls \ {l}) \cup {[l EXCEPT !.deleted_at = NULL]}]
         : l \in found }
  ELSE { [res |-> "ok", likes |-> ls \cup {new_like(ls, uid, tt, tid)}] }

\* SQLAlchemyLikeRepository.like: the set of possible outcomes [res, likes]
\* (.first() picks one of the matching rows)
like_repo_like(ls, uid, tt, tid) ==
  LET found == like_lookup(ls, uid, tt, tid) IN
  IF found # {}
  THEN { IF l.deleted_at # NULL
         THEN [res |-> "ok", likes |-> (ls \ {l}) \cup {[l EXCEPT !.deleted_at = NULL]}]
         ELSE [res |-> "AlreadyLiked", likes |-> ls]
         : l \in found }
  ELSE { [res |-> "ok", likes |-> ls \cup {new_like(ls, uid, tt, tid)}] }

\* a cancel that reports success again on a row that is already soft-deleted
like_repo_cancel_like_idempotent(ls, uid, tt, tid) ==
  LET found == like_lookup(ls, uid, tt, tid) IN
  IF found = {}
  THEN { [res |-> "NotLiked", likes |-> ls] }
  ELSE { [res |-> "ok", likes |-> (ls \ {l}) \cup {[l EXCEPT !.deleted_at = SET]}]
         : l \in found }

\* SQLAlchemyLikeRepository.cancel_like: the set of possible outcomes [res, likes]
like_repo_cancel_like(ls, uid, tt, tid) ==
  LET found == like_lookup(ls, uid, tt, tid) IN
  IF found = {}
  THEN { [res |-> "NotLiked", likes |-> ls] }
  ELSE { IF l.deleted_at # NULL
         THEN [res |-> "NotLiked", likes |-> ls]
         ELSE [res |-> "ok", likes |-> (ls \ {l}) \cup {[l EXCEPT !.deleted_at = SET]}]
         : l \in found }

\* like_svc.like_target, step 2: is the target there in its viewer / USER scope
like_target_visible(tt, tid) ==
  IF tt = POST THEN viewer_get_post_by_pid(tid) ELSE get_comment_by_cid_for_user(tid)

\* a counter step that ignores target_type and always writes post_stats
like_counter_step_post_only(tt, tid, step) ==
  /\ post_stats' = update_likes(post_stats, tid, step)
  /\ comments' = comments

\* like_svc.like_target, step 4 / cancel_like, step 3: the paired counter step
like_counter_step(tt, tid, step) ==
  IF tt = POST
  THEN /\ post_stats' = update_likes(post_stats, tid, step)
       /\ comments' = comments
  ELSE /\ comments' = update_like_count(comments, tid, step)
       /\ post_stats' = post_stats

Call(op, args, res) == [op |-> op, args |-> args, res |-> res]

LulIdle == [stage |-> 0, user_id |-> NULL, target_type |-> POST, target_id |-> NULL,
            base |-> 0, ok |-> TRUE]

like_count_of(tt, tid) ==
  IF tt = POST
  THEN (IF tid \in DOMAIN post_stats THEN post_stats[tid].like_count ELSE 0)
  ELSE (IF tid \in DOMAIN comments THEN comments[tid].like_count ELSE 0)

\* history of the like / unlike / like sequence: a like by an existing user on a visible
\* target without a like row starts it; the same user's unlike and like of the same target
\* advance it; any other call ends it.
LulAfterLike(uid, tt, tid, res) ==
  IF get_user_by_uid(uid) /\ like_target_visible(tt, tid) /\ like_rows(likes, uid, tt, tid) = {}
  THEN [stage |-> 1, user_id |-> uid, target_type |-> tt, target_id |-> tid,
        base |-> like_count_of(tt, tid), ok |-> (res = "ok")]
  ELSE IF lul.stage = 2 /\ lul.user_id = uid /\ lul.target_type = tt /\ lul.target_id = tid
  THEN [lul EXCEPT !.stage = 3, !.ok = (lul.ok /\ res = "ok")]
  ELSE LulIdle

LulAfterUnlike(uid, tt, tid, res) ==
  IF lul.stage = 1 /\ lul.user_id = uid /\ lul.target_type = tt /\ lul.target_id = tid
  THEN [lul EXCEPT !.stage = 2, !.ok = (lul.ok /\ res = "ok")]
  ELSE LulIdle

\* history of a soft delete / restore pair: a soft delete of a comment that is not
\* soft-deleted records the counters before it; the restore of the same comment right
\* after it completes the pair; any other call ends it.
SdrIdle == [stage |-> 0, cid |-> NULL, post_count |-> 0, counts |-> << >>]

SdrAfterSoftDelete(cid) ==
  IF cid \in DOMAIN comments /\ comments[cid].deleted_at = NULL
  THEN [stage |-> 1, cid |-> cid,
        post_count |-> post_stats[comments[cid].post_id].comment_count,
        counts |-> [c \in DOMAIN comments |-> comments[c].comment_count]]
  ELSE SdrIdle

SdrAfterRestore(cid) ==
  IF sdr.stage = 1 /\ sdr.cid = cid THEN [sdr EXCEPT !.stage = 2] ELSE SdrIdle

\* like_svc.like_target
like_target(uid, tt, tid) ==
  /\ UNCHANGED <<users, posts, comment_contents, next_cid, follows, user_stats>>
  /\ sdr' = SdrIdle
  /\ UNCHANGED procs
  /\ IF ~get_user_by_uid(uid)
     THEN /\ last' = Call("like_target", <<uid, tt, tid>>, "UserNotFound")
          /\ lul' = LulAfterLike(uid, tt, tid, "UserNotFound")
          /\ UNCHANGED <<likes, post_stats, comments>>
     ELSE IF ~like_target_visible(tt, tid)
     THEN /\ last' = Call("like_target", <<uid, tt, tid>>,
                          IF tt = POST THEN "PostNotFound" ELSE "CommentNotFound")
          /\ lul' = LulAfterLike(uid, tt, tid, "NotFound")
          /\ UNCHANGED <<likes, post_stats, comments>>
     ELSE \E out \in like_repo_like(likes, uid, tt, tid) :
          /\ likes' = out.likes
          /\ last' = Call("like_target", <<uid, tt, tid>>, out.res)
          /\ lul' = LulAfterLike(uid, tt, tid, out.res)
          /\ IF out.res = "ok"
             THEN like_counter_step(tt, tid, 1)
             ELSE UNCHANGED <<post_stats, comments>>

\* like_svc.cancel_like
cancel_like(uid, tt, tid) ==
  /\ UNCHANGED <<users, posts, comment_contents, next_cid, follows, user_stats>>
  /\ sdr' = SdrIdle
  /\ UNCHANGED procs
  /\ IF ~get_user_by_uid(uid)
     THEN /\ last' = Call("cancel_like", <<uid, tt, tid>>, "UserNotFound")
          /\ lul' = LulAfterUnlike(uid, tt, tid, "UserNotFound")
          /\ UNCHANGED <<likes, post_stats, comments>>
     ELSE \E out \in like_repo_cancel_like(likes, uid, tt, tid) :
          /\ likes' = out.likes
          /\ last' = Call("cancel_like", <<uid, tt, tid>>, out.res)
          /\ lul' = LulAfterUnlike(uid, tt, tid, out.res)
          /\ IF out.res = "ok"
             THEN like_counter_step(tt, tid, -1)
             ELSE UNCHANGED <<post_stats, comments>>

\* ------------------------------------------------------------ timestamps --
\* now(): a timestamp that differs from the one stored before
Now(old) == IF old = 1 THEN 2 ELSE 1

\* ---------------------------------------------------------- comment tree --
\* SQLAlchemyCommentRepository.create_comment: the inserted row for the new cid
\* (status / review_status are passed as None by the service: NORMAL / PENDING)
new_comment(cid, post_id, parent_id, root_id) ==
  [post_id |-> post_id, parent_id |-> parent_id,
   root_id |-> IF parent_id = NULL /\ root_id = NULL THEN cid ELSE root_id,
   comment_count |-> 0, like_count |-> 0,
   status |-> "NORMAL", review_status |-> "PENDING",
   reviewed_at |-> NULL, deleted_at |-> NULL]

\* counter tiers that credit the parent only, never the thread root
create_counters_parent_only(cs, parent_id, root_id) ==
  IF parent_id # NULL THEN update_comment_count(cs, parent_id, 1) ELSE cs

\* comment_svc.create_comment, step 5 and the two tier tests after it
create_counters(cs, parent_id, root_id) ==
  LET c1 == IF parent_id = root_id THEN update_comment_count(cs, parent_id, 1) ELSE cs
  IN  IF parent_id # NULL /\ parent_id # root_id
      THEN update_comment_count(update_comment_count(c1, parent_id, 1), root_id, 1)
      ELSE c1

\* comment_svc.create_comment
create_comment(author_id, post_id, parent_id, root_id) ==
  /\ UNCHANGED <<users, posts, likes>>
  /\ lul' = LulIdle
  /\ sdr' = SdrIdle
  /\ UNCHANGED procs
  /\ UNCHANGED <<follows, user_stats>>
  /\ IF ~get_user_by_uid(author_id)
     THEN /\ last' = Call("create_comment", <<post_id, parent_id, root_id>>, "UserNotFound")
          /\ UNCHANGED <<comments, comment_contents, next_cid, post_stats>>
     ELSE IF ~viewer_get_post_by_pid(post_id)
     THEN /\ last' = Call("create_comment", <<post_id, parent_id, root_id>>, "PostNotFound")
          /\ UNCHANGED <<comments, comment_contents, next_cid, post_stats>>
     ELSE IF parent_id # NULL /\ parent_id \notin DOMAIN comments
     THEN \* fk_comments_parent rejects the insert
          /\ last' = Call("create_comment", <<post_id, parent_id, root_id>>, "IntegrityError")
          /\ UNCHANGED <<comments, comment_contents, next_cid, post_stats>>
     ELSE LET cid == next_cid + 1
              inserted == [c \in DOMAIN comments \cup {cid} |->
                             IF c = cid THEN new_comment(cid, post_id, parent_id, root_id)
                             ELSE comments[c]]
          IN  /\ next_cid' = cid
              /\ comment_contents' = comment_contents \cup {cid}
              /\ post_stats' = update_comments(post_stats, post_id, 1)
              /\ comments' = create_counters(inserted, parent_id, root_id)
              /\ last' = Call("create_comment", <<post_id, parent_id, root_id>>, "ok")

\* app.core.db.transaction (the with-block around each repository write): the block's
\* writes are committed when it is left normally and rolled back when it raises
transaction(before, after, ok) == IF ok THEN after ELSE before

\* the steps of create_comment after the insert of the comment row that can raise
FailSteps == {"content", "post_counter", "comment_counter", "final_read"}

\* comment_svc.create_comment when the step `failed` raises (a store error): every
\* repository call before it has left its own with-block, the calls after it do not run
create_comment_fails(author_id, post_id, parent_id, root_id, failed) ==
  /\ get_user_by_uid(author_id)
  /\ viewer_get_post_by_pid(post_id)
  /\ parent_id # NULL => parent_id \in DOMAIN comments
  /\ LET cid == next_cid + 1
         inserted == [c \in DOMAIN comments \cup {cid} |->
                        IF c = cid THEN new_comment(cid, post_id, parent_id, root_id)
                        ELSE comments[c]]
     IN  /\ next_cid' = cid
         /\ comment_contents' = transaction(comment_contents, comment_contents \cup {cid},
                                            failed # "content")
         /\ post_stats' = transaction(post_stats, update_comments(post_stats, post_id, 1),
                                      failed \notin {"content", "post_counter"})
         /\ comments' = transaction(inserted, create_counters(inserted, parent_id, root_id),
                                    failed = "final_read")
  /\ last' = Call("create_comment", <<post_id, parent_id, root_id>>, "Exception")
  /\ lul' = LulIdle
  /\ sdr' = SdrIdle
  /\ UNCHANGED procs
  /\ UNCHANGED <<users, posts, likes, follows, user_stats>>

\* the counter tiers of comment_svc.soft_delete_comment (sign = -1) and
\* comment_svc.restore_comment (sign = 1), applied to the row `data` read before the write
tier_post_stats(stats, cid, data, sign) ==
  LET s1 == IF data.parent_id = NULL /\ data.root_id = cid
            THEN update_comments(stats, data.post_id, sign * data.comment_count) ELSE stats
      s2 == IF data.parent_id = data.root_id
            THEN update_comments(s1, data.post_id, sign) ELSE s1
  IN  IF data.parent_id # NULL /\ data.parent_id # data.root_id
      THEN update_comments(s2, data.post_id, sign) ELSE s2

tier_comments(cs, cid, data, sign) ==
  LET c2 == IF data.parent_id = data.root_id
            THEN update_comment_count(cs, data.parent_id, sign) ELSE cs
  IN  IF data.parent_id # NULL /\ data.parent_id # data.root_id
      THEN update_comment_count(update_comment_count(c2, data.parent_id, sign),
                                data.root_id, sign)
      ELSE c2

\* a soft delete that stamps the replies of the comment as well
repo_soft_delete_with_replies(cs, cid) ==
  [c \in DOMAIN cs |-> IF c = cid \/ cs[c].parent_id = cid
                       THEN [cs[c] EXCEPT !.deleted_at = SET] ELSE cs[c]]

\* SQLAlchemyCommentRepository.soft_delete_comment: TRUE iff the row exists
repo_soft_delete_comment(cs, cid) ==
  IF cid \in DOMAIN cs THEN [cs EXCEPT ![cid].deleted_at = SET] ELSE cs

\* comment_svc.soft_delete_comment
soft_delete_comment(cid) ==
  /\ UNCHANGED <<users, posts, comment_contents, next_cid, likes>>
  /\ lul' = LulIdle
  /\ sdr' = SdrAfterSoftDelete(cid)
  /\ UNCHANGED procs
  /\ UNCHANGED <<follows, user_stats>>
  /\ IF cid \notin DOMAIN comments
     THEN /\ last' = Call("soft_delete_comment", <<cid>>, "False")
          /\ UNCHANGED <<comments, post_stats>>
     ELSE LET data == comments[cid] IN
          /\ comments' = tier_comments(repo_soft_delete_comment(comments, cid), cid, data, -1)
          /\ post_stats' = tier_post_stats(post_stats, cid, data, -1)
          /\ last' = Call("soft_delete_comment", <<cid>>, "True")

\* a restore that does not look at deleted_at
repo_restore_any(cs, cid) == cid \in DOMAIN cs

\* SQLAlchemyCommentRepository.restore_comment: does the repository restore the row
repo_restore_ok(cs, cid) == cid \in DOMAIN cs /\ cs[cid].deleted_at # NULL

\* comment_svc.restore_comment
restore_comment(cid) ==
  /\ UNCHANGED <<users, posts, comment_contents, next_cid, likes>>
  /\ lul' = LulIdle
  /\ sdr' = SdrAfterRestore(cid)
  /\ UNCHANGED procs
  /\ UNCHANGED <<follows, user_stats>>
  /\ IF ~repo_restore_ok(comments, cid)
     THEN /\ last' = Call("restore_comment", <<cid>>, "False")
          /\ UNCHANGED <<comments, post_stats>>
     ELSE LET data == comments[cid] IN
          /\ comments' = tier_comments([comments EXCEPT ![cid].deleted_at = NULL], cid, data, 1)
          /\ post_stats' = tier_post_stats(post_stats, cid, data, 1)
          /\ last' = Call("restore_comment", <<cid>>, "True")

\* Comment.child, cascade="all, delete-orphan": the rows session.delete(comment) removes
RECURSIVE delete_cascade(_, _)
delete_cascade(cs, cid) ==
  {cid} \cup UNION {delete_cascade(cs, k) : k \in {c \in DOMAIN cs : cs[c].parent_id = cid}}

\* comment_svc.hard_delete_comment, the test made before the repository is called
hard_delete_guard(data) == IF data.deleted_at = NULL THEN "NotSoftDeleted" ELSE "ok"

\* comment_svc.hard_delete_comment
hard_delete_comment(cid) ==
  /\ UNCHANGED <<users, posts, post_stats, next_cid, likes>>
  /\ lul' = LulIdle
  /\ sdr' = SdrIdle
  /\ UNCHANGED procs
  /\ UNCHANGED <<follows, user_stats>>
  /\ IF ~get_comment_by_cid_for_admin(cid)
     THEN /\ last' = Call("hard_delete_comment", <<cid>>, "CommentNotFound")
          /\ UNCHANGED <<comments, comment_contents>>
     ELSE IF hard_delete_guard(comments[cid]) # "ok"
     THEN /\ last' = Call("hard_delete_comment", <<cid>>, hard_delete_guard(comments[cid]))
          /\ UNCHANGED <<comments, comment_contents>>
     ELSE LET gone == delete_cascade(comments, cid) IN
          /\ comments' = [c \in DOMAIN comments \ gone |-> comments[c]]
          /\ comment_contents' = comment_contents \ gone
          /\ last' = Call("hard_delete_comment", <<cid>>, "True")

\* SQLAlchemyCommentRepository.list_comments_by_root_for_user: the USER-visible comments of
\* the table cs whose root_id is the given one (the order by created_at is left out)
list_comments_by_root_for_user(cs, root_id) ==
  {c \in DOMAIN cs : user_query(cs[c]) /\ cs[c].root_id = root_id}

\* comment_svc.get_comment_thread_for_user on the table cs: CommentNotFound when the
\* comment is not USER-visible, else the listing for `current.root_id or current.cid`
get_comment_thread_for_user(cs, cid) ==
  IF cid \in DOMAIN cs /\ user_query(cs[cid])
  THEN [res |-> "ok",
        items |-> list_comments_by_root_for_user(
                    cs, IF cs[cid].root_id # NULL THEN cs[cid].root_id ELSE cid)]
  ELSE [res |-> "CommentNotFound", items |-> {}]

\* get_comment_subtree_for_user, step 4: the stack walk from cid over parent_to_children,
\* both built from the thread listing `all` only; the set of cids collected
RECURSIVE subtree_walk(_, _, _, _)
subtree_walk(cs, all, stack, visited) ==
  IF stack \ visited = {}
  THEN visited
  ELSE LET current_cid == CHOOSE x \in stack \ visited : TRUE
       IN  subtree_walk(cs, all,
                        (stack \ {current_cid}) \cup {k \in all : cs[k].parent_id = current_cid},
                        visited \cup {current_cid})

\* get_comment_subtree_for_user, step 5: the collected comments in the order of the
\* thread listing, which is created_at ascending (cids are handed out in creation order)
RECURSIVE sort_by_position(_)
sort_by_position(S) ==
  IF S = {}
  THEN << >>
  ELSE LET first == CHOOSE x \in S : \A y \in S : x <= y
       IN  <<first>> \o sort_by_position(S \ {first})

\* comment_svc.get_comment_subtree_for_user on the table cs
get_comment_subtree_for_user(cs, cid) ==
  IF ~(cid \in DOMAIN cs /\ user_query(cs[cid]))
  THEN [res |-> "CommentNotFound", items |-> << >>]
  ELSE LET root_id == IF cs[cid].root_id # NULL THEN cs[cid].root_id ELSE cid
           all == list_comments_by_root_for_user(cs, root_id)
       IN  IF all = {} \/ cid \notin all
           THEN [res |-> "CommentNotFound", items |-> << >>]
           ELSE [res |-> "ok", items |-> sort_by_position(subtree_walk(cs, all, {cid}, {}))]

\* comment_svc.get_comment_for_user: the comment (its cid), or the error raised; the
\* repository raises RuntimeError for a visible row without a content row
get_comment_for_user(cid) ==
  IF ~get_comment_by_cid_for_user(cid) THEN "CommentNotFound"
  ELSE IF cid \notin comment_contents THEN "RuntimeError"
  ELSE "ok"

\* comment_svc.get_comment_for_admin
get_comment_for_admin(cid) ==
  IF ~get_comment_by_cid_for_admin(cid) THEN "CommentNotFound"
  ELSE IF cid \notin comment_contents THEN "RuntimeError"
  ELSE "ok"

\* comment_svc.list_comments_by_post_for_reviewer: the comments of the post in
\* _reviewer_query (all pages together; the order by created_at is left out)
list_comments_by_post_for_reviewer(post_id) ==
  {c \in DOMAIN comments : reviewer_query(comments[c]) /\ comments[c].post_id = post_id}

\* ------------------------------------------------- review / display state --
ReviewStatus == {"PENDING", "APPROVED", "REJECTED"}
CommentStatus == {"NORMAL", "FOLDED"}
\* a request field left out (Optional[...] = None)
None == "None"

\* a transition test that lets every status through
review_transition_any(old_status, new_status) ==
  IF new_status = None THEN "InvalidTransition" ELSE "ok"

\* comment_svc.review_comment, step 2: the transition test
review_transition(old_status, new_status) ==
  IF new_status = None THEN "InvalidTransition"
  ELSE IF new_status = "PENDING" /\ old_status # "PENDING" THEN "InvalidTransition"
  ELSE "ok"

\* comment_svc.review_comment
review_comment(cid, new_status) ==
  /\ UNCHANGED <<users, posts, post_stats, comment_contents, next_cid, likes>>
  /\ lul' = LulIdle
  /\ sdr' = SdrIdle
  /\ UNCHANGED procs
  /\ UNCHANGED <<follows, user_stats>>
  /\ IF ~get_comment_by_cid_for_admin(cid)
     THEN /\ last' = Call("review_comment", <<cid, new_status>>, "CommentNotFound")
          /\ UNCHANGED comments
     ELSE IF review_transition(comments[cid].review_status, new_status) # "ok"
     THEN /\ last' = Call("review_comment", <<cid, new_status>>, "InvalidTransition")
          /\ UNCHANGED comments
     ELSE /\ comments' = [comments EXCEPT ![cid].review_status = new_status,
                                          ![cid].reviewed_at = Now(@)]
          /\ last' = Call("review_comment", <<cid, new_status>>, "ok")

\* comment_svc.update_comment_status
update_comment_status(cid, status) ==
  /\ UNCHANGED <<users, posts, post_stats, comment_contents, next_cid, likes>>
  /\ lul' = LulIdle
  /\ sdr' = SdrIdle
  /\ UNCHANGED procs
  /\ UNCHANGED <<follows, user_stats>>
  /\ IF status = None
     THEN /\ last' = Call("update_comment_status", <<cid, status>>, "InvalidTransition")
          /\ UNCHANGED comments
     ELSE IF ~get_comment_by_cid_for_admin(cid)
     THEN /\ last' = Call("update_comment_status", <<cid, status>>, "CommentNotFound")
          /\ UNCHANGED comments
     ELSE /\ comments' = [comments EXCEPT ![cid].status = status]
          /\ last' = Call("update_comment_status", <<cid, status>>, "ok")

\* post_svc.review_post, step 2: the transition test
post_review_transition(old_status, new_status) ==
  IF new_status = "PENDING" /\ old_status # "PENDING" THEN "InvalidTransition" ELSE "ok"

\* post_svc.review_post.  A review_status of None is written as NULL; PostReviewOut
\* then fails to validate the row, on the read after the update and on every later read.
review_post(pid, new_status) ==
  /\ UNCHANGED <<users, post_stats, comments, comment_contents, next_cid, likes>>
  /\ lul' = LulIdle
  /\ sdr' = SdrIdle
  /\ UNCHANGED procs
  /\ UNCHANGED <<follows, user_stats>>
  /\ IF ~review_query_post(pid)
     THEN /\ last' = Call("review_post", <<pid, new_status>>, "PostNotFound")
          /\ UNCHANGED posts
     ELSE IF posts[pid].review_status = None
     THEN /\ last' = Call("review_post", <<pid, new_status>>, "ValidationError")
          /\ UNCHANGED posts
     ELSE IF post_review_transition(posts[pid].review_status, new_status) # "ok"
     THEN /\ last' = Call("review_post", <<pid, new_status>>, "InvalidTransition")
          /\ UNCHANGED posts
     ELSE /\ posts' = [posts EXCEPT ![pid].review_status = new_status,
                                    ![pid].reviewed_at = Now(@)]
          /\ last' = Call("review_post", <<pid, new_status>>,
                          IF new_status = None THEN "ValidationError" ELSE "ok")

\* post_svc.soft_delete_post
soft_delete_post(pid) ==
  /\ UNCHANGED <<users, post_stats, comments, comment_contents, next_cid, likes>>
  /\ lul' = LulIdle
  /\ sdr' = SdrIdle
  /\ UNCHANGED procs
  /\ UNCHANGED <<follows, user_stats>>
  /\ IF pid \in DOMAIN posts /\ posts[pid].deleted_at = NULL
     THEN /\ posts' = [posts EXCEPT ![pid].deleted_at = SET]
          /\ last' = Call("soft_delete_post", <<pid>>, "True")
     ELSE /\ last' = Call("soft_delete_post", <<pid>>, "False")
          /\ UNCHANGED posts

\* post_svc.update_post (SQLAlchemyPostRepository.update_post); None = field left out
update_post(pid, visibility, publish_status) ==
  /\ UNCHANGED <<users, post_stats, comments, comment_contents, next_cid, likes>>
  /\ lul' = LulIdle
  /\ sdr' = SdrIdle
  /\ UNCHANGED procs
  /\ UNCHANGED <<follows, user_stats>>
  /\ IF pid \notin DOMAIN posts
     THEN /\ last' = Call("update_post", <<pid, visibility, publish_status>>, "False")
          /\ UNCHANGED posts
     ELSE IF publish_status # None /\ posts[pid].publish_status = "PUBLISHED"
     THEN /\ last' = Call("update_post", <<pid, visibility, publish_status>>, "ForbiddenAction")
          /\ UNCHANGED posts
     ELSE /\ posts' = [posts EXCEPT
                         ![pid].visibility = IF visibility = None THEN @ ELSE visibility,
                         ![pid].publish_status = IF publish_status = None THEN @ ELSE publish_status]
          /\ last' = Call("update_post", <<pid, visibility, publish_status>>, "True")

\* ----------------------------------------------------- follow subsystem --
\* SQLAlchemyUserStatsRepository._get_or_create_stats_orm: a missing row is created with 0 / 0
get_or_create_stats_orm(stats, uid) ==
  IF uid \in DOMAIN stats
  THEN stats
  ELSE stats @@ (uid :> [following_count |-> 0, followers_count |-> 0])

\* SQLAlchemyUserStatsRepository.update_following: following_count := max(following_count + step, 0)
update_following(stats, uid, step) ==
  [get_or_create_stats_orm(stats, uid) EXCEPT ![uid].following_count = Max(@ + step, 0)]

\* SQLAlchemyUserStatsRepository.update_followers: followers_count := max(followers_count + step, 0)
update_followers(stats, uid, step) ==
  [get_or_create_stats_orm(stats, uid) EXCEPT ![uid].followers_count = Max(@ + step, 0)]

\* the rows of the follows table for one ordered pair, any deleted_at
follow_rows(fs, user_id, followed_user_id) ==
  {f \in fs : f.user_id = user_id /\ f.followed_user_id = followed_user_id}

\* SQLAlchemyFollowRepository._active_query: rows with deleted_at IS NULL
active_query(fs) == {f \in fs : f.deleted_at = NULL}

\* an is_following that also counts soft-deleted rows
is_following_any_row(fs, user_id, followed_user_id) ==
  follow_rows(fs, user_id, followed_user_id) # {}

\* SQLAlchemyFollowRepository.is_following
is_following(fs, user_id, followed_user_id) ==
  follow_rows(active_query(fs), user_id, followed_user_id) # {}

\* SQLAlchemyFollowRepository.admin_get_follow: the rows .first() can return, any deleted_at
admin_get_follow(fs, user_id, followed_user_id) ==
  follow_rows(fs, user_id, followed_user_id)

\* a fresh Follow row (fid stands for the row's primary key: the serial of the row within
\* its pair). The insert is reached only when no row of the pair exists, so the unique
\* constraint uq_user_follow never rejects it in calls run one at a time.
new_follow(fs, user_id, followed_user_id) ==
  [user_id |-> user_id, followed_user_id |-> followed_user_id, deleted_at |-> NULL,
   created_at |-> Now(NULL),
   fid |-> Cardinality(follow_rows(fs, user_id, followed_user_id)) + 1]

\* SQLAlchemyFollowRepository.create_follow: the set of possible follows tables afterwards
\* (a soft-deleted row is restored with a new created_at, an active row is returned as it
\* is, else a row is added)
create_follow(fs, user_id, followed_user_id) ==
  LET found == follow_rows(fs, user_id, followed_user_id) IN
  IF found # {}
  THEN { IF f.deleted_at # NULL
         THEN (fs \ {f}) \cup {[f EXCEPT !.deleted_at = NULL,
                                         !.created_at = Now(f.created_at)]}
         ELSE fs
         : f \in found }
  ELSE { fs \cup {new_follow(fs, user_id, followed_user_id)} }

\* SQLAlchemyFollowRepository.cancel_follow: the set of possible outcomes [ok, follows]
follow_repo_cancel_follow(fs, user_id, followed_user_id) ==
  LET found == follow_rows(active_query(fs), user_id, followed_user_id) IN
  IF found = {}
  THEN { [ok |-> FALSE, follows |-> fs] }
  ELSE { [ok |-> TRUE, follows |-> (fs \ {f}) \cup {[f EXCEPT !.deleted_at = SET]}]
         : f \in found }

\* SQLAlchemyFollowRepository.hard_delete_follow: the set of possible outcomes [ok, follows]
\* (the row is deleted whatever its deleted_at)
follow_repo_hard_delete_follow(fs, user_id, followed_user_id) ==
  LET found == follow_rows(fs, user_id, followed_user_id) IN
  IF found = {}
  THEN { [ok |-> FALSE, follows |-> fs] }
  ELSE { [ok |-> TRUE, follows |-> fs \ {f}] : f \in found }

\* the two counter updates of a follow that move only the follower's following_count
follow_stats_step_following_only(stats, current_uid, target_uid, step) ==
  update_following(stats, current_uid, step)

\* follow_svc.follow_user / cancel_follow: the two counter updates after the ledger write
follow_stats_step(stats, current_uid, target_uid, step) ==
  update_followers(update_following(stats, current_uid, step), target_uid, step)

\* the checks of follow_user without the comparison of the two uids
follow_guard_no_self(fs, current_uid, target_uid) ==
  IF ~get_user_by_uid(current_uid) \/ ~get_user_by_uid(target_uid) THEN "UserNotFound"
  ELSE IF is_following(fs, current_uid, target_uid) THEN "AlreadyFollowingError"
  ELSE "ok"

\* follow_svc.follow_user, the checks before the ledger write, in the code's order:
\* both users exist, the two uids differ, no active edge yet
follow_guard(fs, current_uid, target_uid) ==
  IF ~get_user_by_uid(current_uid) \/ ~get_user_by_uid(target_uid) THEN "UserNotFound"
  ELSE IF current_uid = target_uid THEN "FollowYourselfError"
  ELSE IF is_following(fs, current_uid, target_uid) THEN "AlreadyFollowingError"
  ELSE "ok"

\* follow_svc.follow_user
follow_user(current_uid, target_uid) ==
  LET g == follow_guard(follows, current_uid, target_uid) IN
  /\ IF g # "ok"
     THEN UNCHANGED <<follows, user_stats>>
     ELSE /\ follows' \in create_follow(follows, current_uid, target_uid)
          /\ user_stats' = follow_stats_step(user_stats, current_uid, target_uid, 1)
  /\ last' = Call("follow_user", <<current_uid, target_uid>>, g)
  /\ lul' = LulIdle
  /\ sdr' = SdrIdle
  /\ UNCHANGED procs
  /\ UNCHANGED <<users, posts, post_stats, comments, comment_contents, next_cid, likes>>

\* follow_svc.cancel_follow (the users are not looked up)
cancel_follow(current_uid, target_uid) ==
  /\ IF ~is_following(follows, current_uid, target_uid)
     THEN /\ UNCHANGED <<follows, user_stats>>
          /\ last' = Call("cancel_follow", <<current_uid, target_uid>>, "NotFollowingError")
     ELSE \E r \in follow_repo_cancel_follow(follows, current_uid, target_uid) :
            /\ follows' = r.follows
            /\ IF r.ok
               THEN /\ user_stats' = follow_stats_step(user_stats, current_uid, target_uid, -1)
                    /\ last' = Call("cancel_follow", <<current_uid, target_uid>>, "True")
               ELSE /\ UNCHANGED user_stats
                    /\ last' = Call("cancel_follow", <<current_uid, target_uid>>, "False")
  /\ lul' = LulIdle
  /\ sdr' = SdrIdle
  /\ UNCHANGED procs
  /\ UNCHANGED <<users, posts, post_stats, comments, comment_contents, next_cid, likes>>

\* IUserRepository.admin_get_user_by_uid: SQLAlchemyUserRepository subclasses the protocol
\* and does not define the method, so the call runs the protocol's body `...` and yields
\* None for every uid
admin_get_user_by_uid(uid) == FALSE

\* follow_svc.hard_delete_follow
hard_delete_follow(user_id, followed_user_id) ==
  LET found == admin_get_follow(follows, user_id, followed_user_id) IN
  /\ IF ~admin_get_user_by_uid(user_id) \/ ~admin_get_user_by_uid(followed_user_id)
     THEN /\ UNCHANGED follows
          /\ last' = Call("hard_delete_follow", <<user_id, followed_user_id>>, "UserNotFound")
     ELSE IF found = {}
     THEN /\ UNCHANGED follows
          /\ last' = Call("hard_delete_follow", <<user_id, followed_user_id>>, "False")
     ELSE \E f \in found :
            IF f.deleted_at = NULL
            THEN /\ UNCHANGED follows
                 /\ last' = Call("hard_delete_follow", <<user_id, followed_user_id>>,
                                 "HardDeleteFollowRequiresSoftDeleteError")
            ELSE \E r \in follow_repo_hard_delete_follow(follows, user_id, followed_user_id) :
                   /\ follows' = r.follows
                   /\ last' = Call("hard_delete_follow", <<user_id, followed_user_id>>,
                                   IF r.ok THEN "True" ELSE "False")
  /\ lul' = LulIdle
  /\ sdr' = SdrIdle
  /\ UNCHANGED procs
  /\ UNCHANGED <<users, user_stats, posts, post_stats, comments, comment_contents,
                 next_cid, likes>>

\* user_svc.soft_delete_user + SQLAlchemyUserRepository.soft_delete_user: only deleted_at is
\* stamped; follow rows and user_stats are kept
soft_delete_user(uid) ==
  /\ IF get_user_by_uid(uid)
     THEN /\ users' = [users EXCEPT ![uid].deleted_at = SET]
          /\ last' = Call("soft_delete_user", <<uid>>, "True")
     ELSE /\ UNCHANGED users
          /\ last' = Call("soft_delete_user", <<uid>>, "UserNotFound")
  /\ lul' = LulIdle
  /\ sdr' = SdrIdle
  /\ UNCHANGED procs
  /\ UNCHANGED <<follows, user_stats, posts, post_stats, comments, comment_contents,
                 next_cid, likes>>

\* -------------------------------------------------- concurrent requests --
\* Two workers, each serving one request at a time with its own session. A step is one
\* repository call's read or one with-block's write; steps of the two requests interleave.
Procs == {1, 2}

\* a comment row no request has read
NoData == new_comment(NULL, NULL, NULL, NULL)

IdleProc == [op |-> "none", pc |-> "idle", user_id |-> NULL, target_type |-> POST,
             target_id |-> NULL, found |-> "none", lid |-> NULL, count |-> 0,
             has_data |-> FALSE, data |-> NoData, res |-> "", removed_live |-> FALSE]

NoProcs == [p \in Procs |-> IdleProc]

\* what a step of a request leaves alone, whatever the request
StepFrame ==
  /\ lul' = LulIdle
  /\ sdr' = SdrIdle
  /\ UNCHANGED <<users, posts, next_cid, follows, user_stats>>

\* the request of worker p returns or raises res
Finish(p, args, res) ==
  /\ procs' = [procs EXCEPT ![p].pc = "done", ![p].res = res]
  /\ last' = Call(procs[p].op, args, res)

\* the request of worker p moves on to the step pc
Goto(p, pc) ==
  /\ procs' = [procs EXCEPT ![p].pc = pc]
  /\ UNCHANGED last

\* like_svc.like_target, steps 1 and 2: a request arrives at an idle worker, the user and
\* the target are looked up
like_check(p, uid, tt, tid) ==
  /\ procs[p].pc = "idle"
  /\ LET started == [IdleProc EXCEPT !.op = "like_target", !.user_id = uid,
                                     !.target_type = tt, !.target_id = tid]
         res == IF ~get_user_by_uid(uid) THEN "UserNotFound"
                ELSE IF ~like_target_visible(tt, tid)
                THEN (IF tt = POST THEN "PostNotFound" ELSE "CommentNotFound")
                ELSE "ok"
     IN  IF res = "ok"
         THEN /\ procs' = [procs EXCEPT ![p] = [started EXCEPT !.pc = "lookup"]]
              /\ UNCHANGED last
         ELSE /\ procs' = [procs EXCEPT ![p] = [started EXCEPT !.pc = "done", !.res = res]]
              /\ last' = Call("like_target", <<uid, tt, tid>>, res)
  /\ UNCHANGED <<likes, post_stats, comments, comment_contents>>
  /\ StepFrame

\* SQLAlchemyLikeRepository.like, the query for an existing row (.first())
like_read(p) ==
  /\ procs[p].pc = "lookup"
  /\ LET me == procs[p]
         found == like_lookup(likes, me.user_id, me.target_type, me.target_id)
     IN  IF found = {}
         THEN procs' = [procs EXCEPT ![p].pc = "write", ![p].found = "none"]
         ELSE \E l \in found :
                procs' = [procs EXCEPT ![p].pc = "write", ![p].lid = l.lid,
                            ![p].found = IF l.deleted_at # NULL THEN "deleted" ELSE "active"]
  /\ UNCHANGED <<last, likes, post_stats, comments, comment_contents>>
  /\ StepFrame

\* SQLAlchemyLikeRepository.like, what follows the query: AlreadyLikedError for an active
\* row, the restoring UPDATE of the row read for a soft-deleted one, else the INSERT,
\* which uq_likes_user_target rejects when a row of the triple exists by now
like_write(p) ==
  /\ procs[p].pc = "write"
  /\ LET me == procs[p]
         args == <<me.user_id, me.target_type, me.target_id>>
         rows == like_rows(likes, me.user_id, me.target_type, me.target_id)
     IN  CASE me.found = "active" ->
                /\ Finish(p, args, "AlreadyLiked")
                /\ UNCHANGED likes
           [] me.found = "deleted" ->
                /\ likes' = (likes \ rows) \cup
                              {IF l.lid = me.lid THEN [l EXCEPT !.deleted_at = NULL] ELSE l
                               : l \in rows}
                /\ Goto(p, "count_read")
           [] me.found = "none" ->
                IF rows # {}
                THEN /\ Finish(p, args, "IntegrityError")
                     /\ UNCHANGED likes
                ELSE /\ likes' = likes \cup {new_like(likes, me.user_id, me.target_type,
                                                      me.target_id)}
                     /\ Goto(p, "count_read")
  /\ UNCHANGED <<post_stats, comments, comment_contents>>
  /\ StepFrame

\* update_likes / update_like_count, the read of the row that holds the counter
like_count_read(p) ==
  /\ procs[p].pc = "count_read"
  /\ procs' = [procs EXCEPT ![p].pc = "count_write",
                 ![p].count = like_count_of(procs[p].target_type, procs[p].target_id)]
  /\ UNCHANGED <<last, likes, post_stats, comments, comment_contents>>
  /\ StepFrame

\* update_likes / update_like_count, the write: like_count := max(value read + 1, 0),
\* flushed as an UPDATE that sets the column to that number
like_count_write(p) ==
  /\ procs[p].pc = "count_write"
  /\ LET me == procs[p]
         new_value == Max(me.count + 1, 0)
     IN  /\ IF me.target_type = POST
            THEN /\ post_stats' = IF me.target_id \in DOMAIN post_stats
                                  THEN [post_stats EXCEPT ![me.target_id].like_count = new_value]
                                  ELSE post_stats
                 /\ UNCHANGED comments
            ELSE /\ comments' = IF me.target_id \in DOMAIN comments
                                THEN [comments EXCEPT ![me.target_id].like_count = new_value]
                                ELSE comments
                 /\ UNCHANGED post_stats
         /\ Finish(p, <<me.user_id, me.target_type, me.target_id>>, "ok")
  /\ UNCHANGED <<likes, comment_contents>>
  /\ StepFrame

\* history: every post's comment_count is the number of its comments that are not
\* soft-deleted (recorded when a delete or restore request arrives: 0 yes, 1 no)
counter_drift ==
  IF \A q \in DOMAIN post_stats :
       post_stats[q].comment_count =
         Cardinality({c \in DOMAIN comments :
                        comments[c].post_id = q /\ comments[c].deleted_at = NULL})
  THEN 0 ELSE 1

\* comment_svc.hard_delete_comment, the read and the two tests made on the row read
hard_delete_read(p, cid) ==
  /\ procs[p].pc = "idle"
  /\ LET started == [IdleProc EXCEPT !.op = "hard_delete_comment", !.target_id = cid,
                                     !.count = counter_drift]
         res == IF ~get_comment_by_cid_for_admin(cid) THEN "CommentNotFound"
                ELSE hard_delete_guard(comments[cid])
     IN  IF res = "ok"
         THEN /\ procs' = [procs EXCEPT ![p] = [started EXCEPT !.pc = "hard_delete_write",
                                                  !.has_data = TRUE, !.data = comments[cid]]]
              /\ UNCHANGED last
         ELSE /\ procs' = [procs EXCEPT ![p] = [started EXCEPT !.pc = "done", !.res = res]]
              /\ last' = Call("hard_delete_comment", <<cid>>, res)
  /\ UNCHANGED <<likes, post_stats, comments, comment_contents>>
  /\ StepFrame

\* SQLAlchemyCommentRepository.hard_delete_comment: the row is looked up again with
\* _admin_query and deleted, whatever its deleted_at is by now
hard_delete_write(p) ==
  /\ procs[p].pc = "hard_delete_write"
  /\ LET cid == procs[p].target_id IN
       IF cid \notin DOMAIN comments
       THEN /\ Finish(p, <<cid>>, "False")
            /\ UNCHANGED <<comments, comment_contents>>
       ELSE LET gone == delete_cascade(comments, cid) IN
            /\ comments' = [c \in DOMAIN comments \ gone |-> comments[c]]
            /\ comment_contents' = comment_contents \ gone
            /\ procs' = [procs EXCEPT ![p].pc = "done", ![p].res = "True",
                           ![p].removed_live = (comments[cid].deleted_at = NULL)]
            /\ last' = Call("hard_delete_comment", <<cid>>, "True")
  /\ UNCHANGED <<likes, post_stats>>
  /\ StepFrame

\* comment_svc.restore_comment, data = get_comment_by_cid_for_admin(cid)
restore_read(p, cid) ==
  /\ procs[p].pc = "idle"
  /\ procs' = [procs EXCEPT ![p] =
                 [IdleProc EXCEPT !.op = "restore_comment", !.target_id = cid,
                    !.count = counter_drift, !.pc = "restore_write",
                    !.has_data = get_comment_by_cid_for_admin(cid),
                    !.data = IF cid \in DOMAIN comments THEN comments[cid] ELSE NoData]]
  /\ UNCHANGED <<last, likes, post_stats, comments, comment_contents>>
  /\ StepFrame

\* SQLAlchemyCommentRepository.restore_comment: False when the row is missing or not
\* soft-deleted by now, else deleted_at := NULL
restore_write(p) ==
  /\ procs[p].pc = "restore_write"
  /\ LET cid == procs[p].target_id IN
       IF ~repo_restore_ok(comments, cid)
       THEN /\ Finish(p, <<cid>>, "False")
            /\ UNCHANGED comments
       ELSE /\ comments' = [comments EXCEPT ![cid].deleted_at = NULL]
            /\ Goto(p, "restore_counters")
  /\ UNCHANGED <<likes, post_stats, comment_contents>>
  /\ StepFrame

\* comment_svc.restore_comment, the counter tiers, computed from the row read at the start
restore_counters(p) ==
  /\ procs[p].pc = "restore_counters"
  /\ LET me == procs[p] IN
       /\ comments' = tier_comments(comments, me.target_id, me.data, 1)
       /\ post_stats' = tier_post_stats(post_stats, me.target_id, me.data, 1)
       /\ Finish(p, <<me.target_id>>, "True")
  /\ UNCHANGED <<likes, comment_contents>>
  /\ StepFrame

\* no request is being served
Quiet == \A p \in Procs : procs[p].pc = "idle"

\* ------------------------------------------------------- specifications --
\* a post as post_svc.create_post leaves it, then published, approved and commented once
ApprovedPost == [visibility |-> "PUBLIC", publish_status |-> "PUBLISHED",
                 review_status |-> "APPROVED", reviewed_at |-> SET, deleted_at |-> NULL]
\* a post as post_svc.create_post leaves it when asked for a draft
DraftPost == [visibility |-> "PUBLIC", publish_status |-> "DRAFT",
              review_status |-> "PENDING", reviewed_at |-> NULL, deleted_at |-> NULL]

InitCommon ==
  /\ users = [u \in Uids |-> [deleted_at |-> NULL]]
  /\ likes = {}
  /\ last = Call("init", <<>>, "ok")
  /\ lul = LulIdle
  /\ sdr = SdrIdle
  /\ procs = NoProcs
  /\ follows = {}
  /\ user_stats = [u \in Uids |-> [following_count |-> 0, followers_count |-> 0]]

\* States the moderation calls (review_post, update_post, review_comment,
\* update_comment_status) lead to from a published, approved post with one top-level comment,
\* and the two states of a post nobody could comment on yet.
LikeConfigs ==
  { [post |-> ApprovedPost, has_comment |-> TRUE, status |-> "NORMAL", review_status |-> "PENDING"],
    [post |-> ApprovedPost, has_comment |-> TRUE, status |-> "FOLDED", review_status |-> "PENDING"],
    [post |-> ApprovedPost, has_comment |-> TRUE, status |-> "NORMAL", review_status |-> "REJECTED"],
    [post |-> [ApprovedPost EXCEPT !.visibility = "AUTHOR_ONLY"],
     has_comment |-> TRUE, status |-> "NORMAL", review_status |-> "PENDING"],
    [post |-> [ApprovedPost EXCEPT !.review_status = "REJECTED"],
     has_comment |-> TRUE, status |-> "NORMAL", review_status |-> "PENDING"],
    [post |-> [DraftPost EXCEPT !.publish_status = "PUBLISHED"],
     has_comment |-> FALSE, status |-> "NORMAL", review_status |-> "PENDING"],
    [post |-> DraftPost, has_comment |-> FALSE, status |-> "NORMAL", review_status |-> "PENDING"] }

\* the like ledger: one post and, when the post was ever visible, one top-level comment on it
InitLike ==
  /\ InitCommon
  /\ \E cfg \in LikeConfigs :
       /\ posts = [p \in Pids |-> cfg.post]
       /\ IF cfg.has_comment
          THEN /\ post_stats = [p \in Pids |-> [like_count |-> 0, comment_count |-> 1]]
               /\ comments = (1 :> [new_comment(1, 1, NULL, NULL) EXCEPT
                                      !.status = cfg.status,
                                      !.review_status = cfg.review_status,
                                      !.reviewed_at = IF cfg.review_status = "PENDING"
                                                      THEN NULL ELSE SET])
               /\ comment_contents = {1}
               /\ next_cid = 1
          ELSE /\ post_stats = [p \in Pids |-> [like_count |-> 0, comment_count |-> 0]]
               /\ comments = << >>
               /\ comment_contents = {}
               /\ next_cid = 0

\* ids a caller can pass for a post or a comment: the existing one, or one that names no row
TargetIds == {1, NoSuchId}

\* user ids a caller can pass: an existing user, or an id that names no user
UidInputs == Uids \cup {NoSuchId}

NextLike ==
  \/ \E u \in UidInputs, tt \in {POST, COMMENT}, t \in TargetIds : like_target(u, tt, t)
  \/ \E u \in UidInputs, tt \in {POST, COMMENT}, t \in TargetIds : cancel_like(u, tt, t)
  \/ \E c \in TargetIds : soft_delete_comment(c)
  \/ \E c \in TargetIds : restore_comment(c)
  \/ \E p \in TargetIds : soft_delete_post(p)

SpecLike == InitLike /\ [][NextLike]_vars

\* the comment tree: an approved public post without comments
InitTree ==
  /\ InitCommon
  /\ posts = [p \in Pids |-> ApprovedPost]
  /\ post_stats = [p \in Pids |-> [like_count |-> 0, comment_count |-> 0]]
  /\ comments = << >>
  /\ comment_contents = {}
  /\ next_cid = 0

\* the comment ids a caller can pass: an existing comment, none, or an id that names no comment
CidInputs == (DOMAIN comments) \cup {NoSuchId}

\* the counters stay within the model's range
CountsBounded ==
  /\ \A p \in DOMAIN post_stats : post_stats[p].comment_count <= MaxCount
  /\ \A c \in DOMAIN comments : comments[c].comment_count <= MaxCount

NextTree ==
  \/ \E u \in UidInputs, p \in Pids \cup {NoSuchId},
        par \in CidInputs \cup {NULL}, root \in CidInputs \cup {NULL} :
        next_cid < MaxComments /\ create_comment(u, p, par, root) /\ CountsBounded'
  \/ \E c \in CidInputs : soft_delete_comment(c)
  \/ \E c \in CidInputs : restore_comment(c) /\ CountsBounded'
  \/ \E c \in CidInputs : hard_delete_comment(c)

SpecTree == InitTree /\ [][NextTree]_vars

\* comment creation alone, on an approved public post without comments
NextCreate ==
  \E u \in UidInputs, p \in Pids \cup {NoSuchId},
     par \in CidInputs \cup {NULL}, root \in CidInputs \cup {NULL} :
     next_cid < MaxComments /\ create_comment(u, p, par, root)

SpecCreate == InitTree /\ [][NextCreate]_vars

\* review and display state: a draft post as post_svc.create_post leaves it, no comments
Visibilities == {"PUBLIC", "AUTHOR_ONLY"}
PublishStatuses == {"DRAFT", "PUBLISHED"}

InitReview ==
  /\ InitCommon
  /\ posts = [p \in Pids |-> DraftPost]
  /\ post_stats = [p \in Pids |-> [like_count |-> 0, comment_count |-> 0]]
  /\ comments = << >>
  /\ comment_contents = {}
  /\ next_cid = 0

NextReview ==
  \/ \E p \in Pids \cup {NoSuchId}, v \in Visibilities \cup {None},
        ps \in PublishStatuses \cup {None} : update_post(p, v, ps)
  \/ \E p \in Pids \cup {NoSuchId}, s \in ReviewStatus \cup {None} : review_post(p, s)
  \/ \E p \in Pids \cup {NoSuchId} : soft_delete_post(p)
  \/ \E u \in UidInputs, p \in Pids \cup {NoSuchId} :
        next_cid < MaxReviewComments /\ create_comment(u, p, NULL, NULL)
  \/ \E c \in CidInputs, s \in ReviewStatus \cup {None} : review_comment(c, s)
  \/ \E c \in CidInputs, s \in CommentStatus \cup {None} : update_comment_status(c, s)
  \/ \E c \in CidInputs : soft_delete_comment(c)
  \/ \E c \in CidInputs : restore_comment(c)

SpecReview == InitReview /\ [][NextReview]_vars

\* the follow graph: users as user_svc.create_user leaves them (a user_stats row with
\* 0 / 0 each), no follow row, an empty forum
InitFollow ==
  /\ InitCommon
  /\ posts = [p \in Pids |-> DraftPost]
  /\ post_stats = [p \in Pids |-> [like_count |-> 0, comment_count |-> 0]]
  /\ comments = << >>
  /\ comment_contents = {}
  /\ next_cid = 0

NextFollow ==
  \/ \E a \in UidInputs, b \in UidInputs : follow_user(a, b)
  \/ \E a \in UidInputs, b \in UidInputs : cancel_follow(a, b)
  \/ \E a \in UidInputs, b \in UidInputs : hard_delete_follow(a, b)
  \/ \E u \in UidInputs : soft_delete_user(u)

SpecFollow == InitFollow /\ [][NextFollow]_vars

\* all six counters together: the comment tree of one post, the likes of user 1 on the post
\* and on the comments, and the follow edges between the users
MaxCounterComments == 2

NextCounters ==
  \/ \E par \in DOMAIN comments \cup {NULL}, root \in DOMAIN comments \cup {NULL} :
        next_cid < MaxCounterComments /\ create_comment(1, 1, par, root) /\ CountsBounded'
  \/ \E c \in DOMAIN comments : soft_delete_comment(c)
  \/ \E c \in DOMAIN comments : restore_comment(c) /\ CountsBounded'
  \/ \E tt \in {POST, COMMENT} : like_target(1, tt, 1)
  \/ \E tt \in {POST, COMMENT} : cancel_like(1, tt, 1)
  \/ \E a \in Uids, b \in Uids : follow_user(a, b)
  \/ \E a \in Uids, b \in Uids : cancel_follow(a, b)

SpecCounters == InitTree /\ [][NextCounters]_vars

\* createComment with and without a store error after the insert of the comment row
NextCreateFail ==
  \/ \E u \in UidInputs, p \in Pids \cup {NoSuchId},
        par \in CidInputs \cup {NULL}, root \in CidInputs \cup {NULL} :
        next_cid < MaxComments /\ create_comment(u, p, par, root)
  \/ \E u \in Uids, p \in Pids, par \in DOMAIN comments \cup {NULL},
        root \in DOMAIN comments \cup {NULL}, failed \in FailSteps :
        next_cid < MaxComments /\ create_comment_fails(u, p, par, root, failed)

SpecCreateFail == InitTree /\ [][NextCreateFail]_vars

\* concurrent likes: a published, approved post with one visible comment; likes and
\* unlikes run one at a time until the first of two concurrent like requests arrives
InitLikeRace ==
  /\ InitLike
  /\ posts = [p \in Pids |-> ApprovedPost]
  /\ 1 \in DOMAIN comments
  /\ user_query(comments[1])

NextLikeRace ==
  \/ \E u \in Uids, tt \in {POST, COMMENT} : Quiet /\ like_target(u, tt, 1)
  \/ \E u \in Uids, tt \in {POST, COMMENT} : Quiet /\ cancel_like(u, tt, 1)
  \/ \E p \in Procs, u \in Uids, tt \in {POST, COMMENT} : like_check(p, u, tt, 1)
  \/ \E p \in Procs : like_read(p)
  \/ \E p \in Procs : like_write(p)
  \/ \E p \in Procs : like_count_read(p)
  \/ \E p \in Procs : like_count_write(p)

SpecLikeRace == InitLikeRace /\ [][NextLikeRace]_vars

\* a hard delete racing a restore: comments are created and soft-deleted one call at a
\* time; then an administrator's hard delete and restore of one comment are served by the
\* two workers
MaxRaceComments == 2

NextDeleteRace ==
  \/ \E par \in DOMAIN comments \cup {NULL}, root \in DOMAIN comments \cup {NULL} :
       /\ Quiet /\ next_cid < MaxRaceComments
       /\ root = (IF par = NULL THEN NULL ELSE comments[par].root_id)
       /\ create_comment(1, 1, par, root) /\ CountsBounded'
  \/ \E c \in DOMAIN comments : Quiet /\ soft_delete_comment(c)
  \/ \E p \in Procs, c \in DOMAIN comments :
       /\ \A q \in Procs : procs[q].pc = "idle" \/ procs[q].target_id = c
       /\ hard_delete_read(p, c)
  \/ \E p \in Procs : hard_delete_write(p)
  \/ \E p \in Procs, c \in DOMAIN comments :
       /\ \A q \in Procs : procs[q].pc = "idle" \/ procs[q].target_id = c
       /\ restore_read(p, c)
  \/ \E p \in Procs : restore_write(p)
  \/ \E p \in Procs : restore_counters(p)

SpecDeleteRace == InitTree /\ [][NextDeleteRace]_vars

\* --------------------------------------------- properties: like ledger --
TargetTypes == {POST, COMMENT}

\* the user row exists and is not soft-deleted
UserExists(u) == u \in DOMAIN users /\ users[u].deleted_at = NULL

\* the target does not exist or is outside its viewer / USER scope
TargetHidden(tt, t) ==
  IF tt = POST
  THEN \/ t \notin DOMAIN posts
       \/ posts[t].deleted_at # NULL
       \/ posts[t].publish_status # "PUBLISHED"
       \/ posts[t].review_status # "APPROVED"
       \/ posts[t].visibility # "PUBLIC"
  ELSE \/ t \notin DOMAIN comments
       \/ comments[t].deleted_at # NULL
       \/ comments[t].status = "FOLDED"
       \/ comments[t].review_status = "REJECTED"

NotFoundOf(tt) == IF tt = POST THEN "PostNotFound" ELSE "CommentNotFound"

\* the active like rows of one (user, target) and of one target
ActiveLikeRows(u, tt, t) ==
  {l \in likes : l.user_id = u /\ l.target_type = tt /\ l.target_id = t /\ l.deleted_at = NULL}
ActiveLikesOn(tt, t) ==
  {l \in likes : l.target_type = tt /\ l.target_id = t /\ l.deleted_at = NULL}

\* the step is the call op(u, tt, t)
IsCall(op, u, tt, t) == last'.op = op /\ last'.args = <<u, tt, t>>

\* the like rows and every like_count are the same after the step as before it
LikeFrame == likes' = likes /\ post_stats' = post_stats /\ comments' = comments

\* every like_count except that of target (tt, t) is the same after the step
OtherLikeCountsSame(tt, t) ==
  /\ DOMAIN post_stats' = DOMAIN post_stats
  /\ DOMAIN comments' = DOMAIN comments
  /\ \A p \in DOMAIN post_stats :
       (tt # POST \/ p # t) => post_stats'[p].like_count = post_stats[p].like_count
  /\ \A c \in DOMAIN comments :
       (tt # COMMENT \/ c # t) => comments'[c].like_count = comments[c].like_count

\* C1: for an existing user u and a USER-visible target t that u has no like row for,
\* like(u,t); unlike(u,t); like(u,t) succeeds at each call, the third call restores the row
\* the first one inserted (no second row), and t's like_count ends at its value before the
\* first call plus 1.
C1_LikeUnlikeLike ==
  /\ lul.stage >= 1 => lul.ok
  /\ lul.stage = 3 =>
       /\ like_count_of(lul.target_type, lul.target_id) = lul.base + 1
       /\ Cardinality(like_rows(likes, lul.user_id, lul.target_type, lul.target_id)) = 1
       /\ \A l \in like_rows(likes, lul.user_id, lul.target_type, lul.target_id) :
            l.deleted_at = NULL /\ l.lid = 1

\* C1 witness: the three calls were made on a comment another user had already liked
C1_Witness ==
  lul.stage = 3 /\ lul.ok /\ lul.target_type = COMMENT /\ lul.base = 1

C3_OneRowPerTriple ==
  \A u \in UidInputs, tt \in TargetTypes, t \in TargetIds :
    Cardinality(like_rows(likes, u, tt, t)) <= 1

\* C3 witness: a like was taken back and given again while other like rows exist
C3_Witness ==
  /\ lul.stage = 3
  /\ Cardinality(likes) >= 3
  /\ \E l \in likes : l.deleted_at # NULL

\* C4: after every call, the like_count of each existing post and comment equals the
\* number of active like rows that target it.
C4_LikeCountIsActiveRows ==
  /\ \A p \in DOMAIN post_stats :
       post_stats[p].like_count = Cardinality(ActiveLikesOn(POST, p))
  /\ \A c \in DOMAIN comments :
       comments[c].like_count = Cardinality(ActiveLikesOn(COMMENT, c))

\* C4 witness: an unlike has just succeeded, one like is left on the post, two on the comment
C4_Witness ==
  /\ last.op = "cancel_like" /\ last.res = "ok"
  /\ post_stats[1].like_count = 1
  /\ 1 \in DOMAIN comments /\ comments[1].like_count = 2

\* the effect of a successful unlike(u, tt, t)
UnlikeEffect(u, tt, t) ==
  /\ \E l \in ActiveLikeRows(u, tt, t) :
       likes' = (likes \ {l}) \cup {[l EXCEPT !.deleted_at = SET]}
  /\ ActiveLikeRows(u, tt, t)' = {}
  /\ like_count_of(tt, t)' = like_count_of(tt, t) - 1
  /\ OtherLikeCountsSame(tt, t)

C6_LikeHiddenTarget ==
  [][\A u \in UidInputs, tt \in TargetTypes, t \in TargetIds :
       IsCall("like_target", u, tt, t)
         => /\ ~UserExists(u) => (last'.res = "UserNotFound" /\ LikeFrame)
            /\ (UserExists(u) /\ TargetHidden(tt, t))
                 => (last'.res = NotFoundOf(tt) /\ LikeFrame)]_vars

\* C6 witness: a like of a FOLDED comment was refused with CommentNotFound
C6_Witness ==
  /\ last.op = "like_target" /\ last.res = "CommentNotFound"
  /\ 1 \in DOMAIN comments /\ comments[1].status = "FOLDED" /\ comments[1].deleted_at = NULL

\* -------------------------------------------- properties: comment tree --
\* comment rows, content rows and post counters are the same after the step as before it
TreeFrame ==
  comments' = comments /\ comment_contents' = comment_contents /\ post_stats' = post_stats

\* C7 (as stated): hardDeleteComment fails with NotSoftDeleted on an existing comment whose
\* deleted_at is null and with CommentNotFound on a cid that names no comment, changing no
\* comment row, content row or counter; every comment row it removes has deleted_at set at
\* the moment of removal.
C7_Original ==
  [][\A c \in Cids \cup {NoSuchId} :
       (last'.op = "hard_delete_comment" /\ last'.args = <<c>>)
         => /\ c \notin DOMAIN comments => (last'.res = "CommentNotFound" /\ TreeFrame)
            /\ (c \in DOMAIN comments /\ comments[c].deleted_at = NULL)
                 => (last'.res = "NotSoftDeleted" /\ TreeFrame)
            /\ \A k \in DOMAIN comments \ DOMAIN comments' :
                 comments[k].deleted_at # NULL]_vars

\* the comment_count of comment c after a successful create with the given parent and root
CountAfterCreate(c, par, root) ==
  comments[c].comment_count
    + (IF par # NULL /\ c = par THEN 1 ELSE 0)
    + (IF par # NULL /\ par # root /\ c = root THEN 1 ELSE 0)

\* the three creations of the scenario have been made: C1 top-level, C2 under C1,
\* C3 under C2 in C1's thread
ScenarioTree ==
  /\ DOMAIN comments = {1, 2, 3}
  /\ comments[1].parent_id = NULL /\ comments[1].root_id = 1
  /\ comments[2].parent_id = 1 /\ comments[2].root_id = 1
  /\ comments[3].parent_id = 2 /\ comments[3].root_id = 1

\* C9: a successful createComment raises the post's comment_count by exactly 1, raises the
\* parent's comment_count by 1 when there is a parent, raises the root's by 1 as well when
\* the parent differs from the root, and changes no other counter; creating C1, C2 under C1
\* and C3 under C2 on an empty post gives post count 3, C1 count 2 and C2 count 1.
C9_CreateCounters ==
  /\ [][\A p \in Pids, par \in Cids \cup {NULL}, root \in Cids \cup {NULL, NoSuchId} :
          (last'.op = "create_comment" /\ last'.args = <<p, par, root>> /\ last'.res = "ok")
            => /\ post_stats'[p].comment_count = post_stats[p].comment_count + 1
               /\ post_stats'[p].like_count = post_stats[p].like_count
               /\ DOMAIN comments' = DOMAIN comments \cup {next_cid'}
               /\ comments'[next_cid'].comment_count = 0
               /\ \A c \in DOMAIN comments :
                    /\ comments'[c].comment_count = CountAfterCreate(c, par, root)
                    /\ comments'[c].like_count = comments[c].like_count]_vars
  /\ [](ScenarioTree =>
          /\ post_stats[1].comment_count = 3
          /\ comments[1].comment_count = 2
          /\ comments[2].comment_count = 1
          /\ comments[3].comment_count = 0)

\* C9 witness: C3 has just been created under C2 in C1's thread
C9_Witness ==
  ScenarioTree /\ last = Call("create_comment", <<1, 2, 1>>, "ok")

\* a counter lowered by n with the floor at 0
Lowered(x, n) == IF x - n >= 0 THEN x - n ELSE 0

\* every comment's comment_count after the step is its value before, lowered by 1 for the
\* comments in `hit`
CommentCountsLowered(hit) ==
  /\ DOMAIN comments' = DOMAIN comments
  /\ \A k \in DOMAIN comments :
       comments'[k].comment_count =
         IF k \in hit THEN Lowered(comments[k].comment_count, 1) ELSE comments[k].comment_count

\* C10 (as stated): a successful softDeleteComment lowers the post's comment_count by the
\* node's own comment_count when the node is top-level (no parent) and changes no comment's
\* counter; by 1, with the parent's counter, when parent_id equals root_id; by 1, with the
\* parent's and the root's counters, when the parent differs from the root; each floored at 0.
C10_Original ==
  [][\A c \in Cids :
       (last'.op = "soft_delete_comment" /\ last'.args = <<c>> /\ last'.res = "True")
         => LET d == comments[c]
                before == post_stats[d.post_id].comment_count
                after == post_stats'[d.post_id].comment_count
            IN  IF d.parent_id = NULL
                THEN after = Lowered(before, d.comment_count) /\ CommentCountsLowered({})
                ELSE IF d.parent_id = d.root_id
                THEN after = Lowered(before, 1) /\ CommentCountsLowered({d.parent_id})
                ELSE after = Lowered(before, 1)
                     /\ CommentCountsLowered({d.parent_id, d.root_id})]_vars

\* ------------------------------------------- properties: review states --
\* C8: reviewComment(cid, new) on an existing comment succeeds exactly when new is not
\* PENDING or the current status is PENDING, and otherwise fails with InvalidTransition
\* leaving the row as it was; no step of any operation takes a comment or a post whose
\* review_status has left PENDING back to PENDING.
C8_ReviewTransitions ==
  [][/\ \A c \in Cids, new \in ReviewStatus :
          (last'.op = "review_comment" /\ last'.args = <<c, new>> /\ c \in DOMAIN comments)
            => IF new # "PENDING" \/ comments[c].review_status = "PENDING"
               THEN /\ last'.res = "ok"
                    /\ comments'[c].review_status = new
               ELSE /\ last'.res = "InvalidTransition"
                    /\ comments' = comments
     /\ \A c \in DOMAIN comments \cap DOMAIN comments' :
          comments[c].review_status # "PENDING" => comments'[c].review_status # "PENDING"
     /\ \A p \in DOMAIN posts \cap DOMAIN posts' :
          posts[p].review_status # "PENDING" => posts'[p].review_status # "PENDING"]_vars

\* C8 witness: an approved comment was asked back to PENDING and the call was refused
C8_Witness ==
  /\ last.op = "review_comment" /\ last.res = "InvalidTransition"
  /\ last.args[2] = "PENDING"
  /\ last.args[1] \in DOMAIN comments
  /\ comments[last.args[1]].review_status = "APPROVED"
  /\ posts[1].review_status = "REJECTED"

\* ------------------------------- properties: soft delete and restore --
\* C11 (as stated): for a comment that is not soft-deleted, softDeleteComment(cid) followed
\* immediately by restoreComment(cid) leaves the post's comment_count and every comment's
\* comment_count at their values before the soft delete, whatever those values were.
C11_Original ==
  sdr.stage = 2 =>
    /\ post_stats[comments[sdr.cid].post_id].comment_count = sdr.post_count
    /\ \A c \in DOMAIN comments : comments[c].comment_count = sdr.counts[c]

\* C12: restoreComment(cid) on a cid that names no comment or on a comment whose deleted_at
\* is null returns the failure flag and changes no comment row (hence no deleted_at and no
\* comment_count) and no post counter.
C12_RestoreRejected ==
  [][\A c \in Cids \cup {NoSuchId} :
       (last'.op = "restore_comment" /\ last'.args = <<c>>
          /\ (c \notin DOMAIN comments \/ comments[c].deleted_at = NULL))
         => (last'.res = "False" /\ comments' = comments /\ post_stats' = post_stats)]_vars

\* C12 witness: a restore of an existing reply that is not soft-deleted was refused
C12_Witness ==
  /\ last.op = "restore_comment" /\ last.res = "False"
  /\ last.args[1] \in DOMAIN comments
  /\ comments[last.args[1]].deleted_at = NULL
  /\ comments[last.args[1]].parent_id # NULL

\* the last call was a successful create, soft delete, restore or hard delete of a comment
TreeCallSucceeded ==
  /\ last.op \in {"create_comment", "soft_delete_comment", "restore_comment",
                  "hard_delete_comment"}
  /\ last.res \in {"ok", "True"}

\* the comments of post p whose deleted_at is null
LiveComments(p) ==
  {c \in DOMAIN comments : comments[c].post_id = p /\ comments[c].deleted_at = NULL}

\* C13 (as stated): after every successful createComment, softDeleteComment, restoreComment
\* or hardDeleteComment the post's comment_count equals the number of comments of that post
\* whose deleted_at is null.
C13_Original ==
  TreeCallSucceeded =>
    \A p \in DOMAIN post_stats : post_stats[p].comment_count = Cardinality(LiveComments(p))

\* the direct children of comment c, and its descendants at any depth (parent_id edges)
Children(c) == {k \in DOMAIN comments : comments[k].parent_id = c}

RECURSIVE Descendants(_)
Descendants(c) == Children(c) \cup UNION {Descendants(k) : k \in Children(c)}

Live(S) == {k \in S : comments[k].deleted_at = NULL}

\* C14 (as stated): after every successful create, soft delete or restore, a thread root's
\* comment_count equals the number of its descendants, at any depth, that are not
\* soft-deleted, and every other comment's comment_count equals the number of its direct
\* children that are not soft-deleted.
C14_Original ==
  (last.op \in {"create_comment", "soft_delete_comment", "restore_comment"}
     /\ last.res \in {"ok", "True"})
    => \A c \in DOMAIN comments :
         comments[c].comment_count =
           IF comments[c].parent_id = NULL
           THEN Cardinality(Live(Descendants(c)))
           ELSE Cardinality(Live(Children(c)))

\* ----------------------------------------------------- properties: counters --
\* C15: in every reachable state each of the six counters (a post's comment_count and
\* like_count, a comment's comment_count and like_count, a user's following_count and
\* followers_count) is greater than or equal to 0.
C15_CountersNonNegative ==
  /\ \A p \in DOMAIN post_stats :
       post_stats[p].comment_count >= 0 /\ post_stats[p].like_count >= 0
  /\ \A c \in DOMAIN comments :
       comments[c].comment_count >= 0 /\ comments[c].like_count >= 0
  /\ \A u \in DOMAIN user_stats :
       user_stats[u].following_count >= 0 /\ user_stats[u].followers_count >= 0

\* a soft delete has brought the post's comment_count to 0 while live comments remain (a
\* further decrement meets the floor), with a like and a follow edge counted
C15_Witness ==
  /\ last.op = "soft_delete_comment" /\ last.res = "True"
  /\ post_stats[1].comment_count = 0
  /\ LiveComments(1) # {}
  /\ post_stats[1].like_count = 1
  /\ \E c \in DOMAIN comments : comments[c].like_count = 1
  /\ user_stats[1].following_count = 1
  /\ user_stats[2].followers_count = 1

\* ------------------------------------------------- properties: follow graph --
\* the active follow edges a user is the follower of / the followee of
ActiveFollowing(u) == {f \in active_query(follows) : f.user_id = u}
ActiveFollowers(u) == {f \in active_query(follows) : f.followed_user_id = u}

\* C16: after every follow or unfollow call, run one at a time in any order, each user's
\* following_count is the number of active follow edges the user is the follower of and
\* the user's followers_count is the number of active edges the user is the followee of;
\* a successful follow (the first one, or one after an unfollow) leaves exactly one row
\* for the pair, and the row is active.
C16_CountsAreActiveEdges ==
  /\ \A u \in DOMAIN user_stats :
       /\ user_stats[u].following_count = Cardinality(ActiveFollowing(u))
       /\ user_stats[u].followers_count = Cardinality(ActiveFollowers(u))
  /\ (last.op = "follow_user" /\ last.res = "ok")
       => /\ Cardinality(follow_rows(follows, last.args[1], last.args[2])) = 1
          /\ is_following(follows, last.args[1], last.args[2])

\* user 1 has followed user 2, unfollowed and followed again (the restored row carries the
\* second created_at): one row, counters 1 and 1
C16_Witness ==
  /\ last = Call("follow_user", <<1, 2>>, "ok")
  /\ \E f \in follow_rows(follows, 1, 2) : f.deleted_at = NULL /\ f.created_at = Now(Now(NULL))
  /\ Cardinality(follow_rows(follows, 1, 2)) = 1
  /\ user_stats[1].following_count = 1
  /\ user_stats[2].followers_count = 1

\* no follow row, active or soft-deleted, from a user to the same user, and at most one
\* row for each ordered pair
NoSelfRowOneRowPerPair ==
  /\ \A f \in follows : f.user_id # f.followed_user_id
  /\ \A f \in follows : Cardinality(follow_rows(follows, f.user_id, f.followed_user_id)) = 1

\* C17: follow(a, a) by an existing user a fails with FollowSelf whatever the follow ledger
\* holds, and no follow row and no counter changes; in every reachable state no follow
\* row has follower equal to followee and each ordered pair has at most one follow row.
C17_FollowSelf ==
  /\ []NoSelfRowOneRowPerPair
  /\ [][\A a \in Uids :
          (last'.op = "follow_user" /\ last'.args = <<a, a>> /\ get_user_by_uid(a))
            => /\ last'.res = "FollowYourselfError"
               /\ follows' = follows
               /\ user_stats' = user_stats]_vars

\* an existing user who follows and is followed has tried to follow themselves
C17_Witness ==
  /\ last = Call("follow_user", <<1, 1>>, "FollowYourselfError")
  /\ is_following(follows, 1, 2)
  /\ \E f \in follow_rows(follows, 2, 1) : f.deleted_at # NULL

\* a has an active follow edge to b
ActiveEdge(a, b) ==
  \E f \in follows : f.user_id = a /\ f.followed_user_id = b /\ f.deleted_at = NULL

\* the failed call left the follow rows and the two counters of the pair as they were
FollowFrame(a, b) ==
  /\ follows' = follows
  /\ user_stats' = user_stats

\* unfollow(a, b) without an active edge from a to b fails with NotFollowing
UnfollowRejected(a, b) ==
  (last'.op = "cancel_follow" /\ last'.args = <<a, b>> /\ ~ActiveEdge(a, b))
    => (last'.res = "NotFollowingError" /\ FollowFrame(a, b))

C19_Original ==
  [][\A a \in Uids, b \in Uids :
       (last'.op = "hard_delete_follow" /\ last'.args = <<a, b>>)
         => /\ ActiveEdge(a, b)
                 => /\ last'.res = "HardDeleteFollowRequiresSoftDeleteError"
                    /\ follows' = follows
            /\ (\E f \in follows : f.user_id = a /\ f.followed_user_id = b
                                     /\ f.deleted_at # NULL)
                 => /\ last'.res = "True"
                    /\ \A f \in follows' : ~(f.user_id = a /\ f.followed_user_id = b)
            /\ user_stats' = user_stats]_vars

\* ------------------------------------------------ properties: thread listing --
\* C20 as stated: for every existing author (the call did not fail with UserNotFound),
\* visible post and existing parent comment, a createComment with that parent succeeds,
\* the thread listing for the parent's root_id taken right afterwards contains the new
\* comment, and the new comment's root_id equals the parent's root_id.
C20_Original ==
  [][\A p \in Pids, par \in Cids, root \in Cids \cup {NULL, NoSuchId} :
       (last'.op = "create_comment" /\ last'.args = <<p, par, root>>
          /\ par \in DOMAIN comments /\ last'.res # "UserNotFound")
         => /\ last'.res = "ok"
            /\ next_cid' \in get_comment_thread_for_user(comments', comments[par].root_id).items
            /\ comments'[next_cid'].root_id = comments[par].root_id]_vars

\* -------------------------------------------------- properties: tree shape --
\* C21 as stated: in every state reachable through createComment with any caller-supplied
\* parent_id and root_id, every stored comment without a parent has root_id equal to its
\* own id, and every stored comment with a parent has a parent that exists on the same
\* post and has root_id equal to that parent's root_id.
C21_Original ==
  \A c \in DOMAIN comments :
    IF comments[c].parent_id = NULL
    THEN comments[c].root_id = c
    ELSE /\ comments[c].parent_id \in DOMAIN comments
         /\ comments[comments[c].parent_id].post_id = comments[c].post_id
         /\ comments[c].root_id = comments[comments[c].parent_id].root_id

\* ------------------------------------------------ properties: read scopes --
\* C22: getComment in USER scope returns a comment exactly when the comment exists, its
\* deleted_at is null, its status is NORMAL and its review_status is not REJECTED, and
\* otherwise fails with CommentNotFound; getComment in ADMIN scope returns every existing
\* comment whatever its deleted_at, status and review_status; the REVIEWER listing of a
\* post leaves out exactly the comments whose deleted_at is set.
C22_ReadScopes ==
  /\ \A cid \in Cids \cup {NoSuchId} :
       /\ get_comment_for_user(cid) =
            IF /\ cid \in DOMAIN comments
               /\ comments[cid].deleted_at = NULL
               /\ comments[cid].status = "NORMAL"
               /\ comments[cid].review_status # "REJECTED"
            THEN "ok" ELSE "CommentNotFound"
       /\ get_comment_for_admin(cid) =
            IF cid \in DOMAIN comments THEN "ok" ELSE "CommentNotFound"
  /\ \A p \in Pids :
       list_comments_by_post_for_reviewer(p) =
         {c \in DOMAIN comments : comments[c].post_id = p} \
           {c \in DOMAIN comments : comments[c].deleted_at # NULL}

\* a soft-deleted, folded and rejected comment: hidden from USER and REVIEWER, there for ADMIN
C22_Witness ==
  /\ 1 \in DOMAIN comments
  /\ comments[1].deleted_at # NULL
  /\ comments[1].status = "FOLDED"
  /\ comments[1].review_status = "REJECTED"
  /\ get_comment_for_user(1) = "CommentNotFound"
  /\ get_comment_for_admin(1) = "ok"
  /\ list_comments_by_post_for_reviewer(1) = {}

\* the members of a sequence of cids
Members(s) == {s[i] : i \in DOMAIN s}

\* the sequence lists each member once, in creation order
AscendingOnce(s) == \A i \in DOMAIN s : \A j \in DOMAIN s : i < j => s[i] < s[j]

UserVisible(c) ==
  /\ c \in DOMAIN comments
  /\ comments[c].deleted_at = NULL
  /\ comments[c].status = "NORMAL"
  /\ comments[c].review_status # "REJECTED"

\* C23 as stated: getSubtree(cid) for a USER-visible comment cid returns exactly cid and
\* every USER-visible comment of the same thread that is a descendant of cid through
\* parent_id edges (also when an ancestor in between is not visible), each once, in
\* creation order; it fails with CommentNotFound when cid is not USER-visible.
C23_Original ==
  \A cid \in Cids \cup {NoSuchId} :
    LET r == get_comment_subtree_for_user(comments, cid) IN
    IF UserVisible(cid)
    THEN /\ r.res = "ok"
         /\ Members(r.items) =
              {cid} \cup {k \in Descendants(cid) :
                            UserVisible(k) /\ comments[k].root_id = comments[cid].root_id}
         /\ AscendingOnce(r.items)
    ELSE r.res = "CommentNotFound"

\* ------------------------------------------------ properties: atomicity --
\* C24 as stated: if a step of createComment fails after the comment row was inserted
\* (the content insert, a counter update or the final read), the state afterwards equals
\* the state before the call: no comment row without a content row exists and no counter
\* was changed.
C24_Original ==
  /\ [](DOMAIN comments \subseteq comment_contents)
  /\ [][(last'.op = "create_comment" /\ last'.res = "Exception")
          => /\ comments' = comments
             /\ comment_contents' = comment_contents
             /\ post_stats' = post_stats]_vars

\* ----------------------------------------------- properties: concurrency --
\* both requests have returned or raised
BothDone == \A p \in Procs : procs[p].pc = "done"

\* the two requests are likes of the same target
SameTarget ==
  /\ \A p \in Procs : procs[p].op = "like_target"
  /\ procs[1].target_type = procs[2].target_type
  /\ procs[1].target_id = procs[2].target_id

\* C25 as stated: when two like(u, t) calls by the same user on the same target run
\* concurrently, at most one of them succeeds and t's like_count rises by at most 1,
\* both when no like row exists beforehand and when a soft-deleted one does. (Before the
\* two calls the like_count is the number of active like rows on t, and the rows of the
\* other users do not change.)
C25_Original ==
  (BothDone /\ SameTarget /\ procs[1].user_id = procs[2].user_id)
    => /\ Cardinality({p \in Procs : procs[p].res = "ok"}) <= 1
       /\ like_count_of(procs[1].target_type, procs[1].target_id) <=
            Cardinality({l \in ActiveLikesOn(procs[1].target_type, procs[1].target_id) :
                           l.user_id # procs[1].user_id}) + 1

\* C26 as stated: when two operations that adjust the same counter run concurrently,
\* here successful likes by two different users on the same target, no update is lost:
\* after both complete the counter is its initial value plus both steps. (The initial
\* value is the number of active like rows on the target, and each like adds one row.)
C26_Original ==
  (BothDone /\ SameTarget /\ procs[1].user_id # procs[2].user_id
     /\ \A p \in Procs : procs[p].res = "ok")
    => like_count_of(procs[1].target_type, procs[1].target_id) =
         Cardinality(ActiveLikesOn(procs[1].target_type, procs[1].target_id))

OnlyFieldsOf(c, F) ==
  /\ DOMAIN comments' = DOMAIN comments
  /\ \A k \in DOMAIN comments :
       \A f \in DOMAIN comments[k] :
         (k # c \/ f \notin F) => comments'[k][f] = comments[k][f]

\* C28: reviewComment changes only the review_status and reviewed_at of the addressed
\* comment and setCommentDisplayStatus changes only its status; neither changes
\* deleted_at, a counter, parent_id, root_id, another comment, a content row or the
\* post's counters, and both act on an existing comment whether it is soft-deleted or not.
C28_ModerationFrame ==
  [][\A c \in Cids \cup {NoSuchId} :
       /\ \A s \in ReviewStatus \cup {None} :
            (last'.op = "review_comment" /\ last'.args = <<c, s>>)
              => /\ OnlyFieldsOf(c, {"review_status", "reviewed_at"})
                 /\ post_stats' = post_stats /\ comment_contents' = comment_contents
                 /\ (c \in DOMAIN comments /\ s # None
                       /\ ~(s = "PENDING" /\ comments[c].review_status # "PENDING"))
                      => (last'.res = "ok" /\ comments'[c].review_status = s)
                 /\ last'.res # "ok" => comments' = comments
       /\ \A s \in CommentStatus \cup {None} :
            (last'.op = "update_comment_status" /\ last'.args = <<c, s>>)
              => /\ OnlyFieldsOf(c, {"status"})
                 /\ post_stats' = post_stats /\ comment_contents' = comment_contents
                 /\ (c \in DOMAIN comments /\ s # None)
                      => (last'.res = "ok" /\ comments'[c].status = s)
                 /\ last'.res # "ok" => comments' = comments]_vars

\* a soft-deleted, folded comment has just been rejected
C28_Witness ==
  /\ last = Call("review_comment", <<1, "REJECTED">>, "ok")
  /\ comments[1].deleted_at # NULL
  /\ comments[1].status = "FOLDED"
  /\ comments[1].review_status = "REJECTED"

\* ------------------------------------------------ properties: repeated delete --
\* C29 (as stated): softDeleteComment of a comment that is already soft-deleted leaves
\* the post's comment_count and every comment's comment_count unchanged.
C29_Original ==
  [][\A c \in Cids :
       (last'.op = "soft_delete_comment" /\ last'.args = <<c>>
          /\ c \in DOMAIN comments /\ comments[c].deleted_at # NULL)
         => /\ post_stats' = post_stats
            /\ \A k \in DOMAIN comments :
                 k \in DOMAIN comments'
                   /\ comments'[k].comment_count = comments[k].comment_count]_vars

\* ------------------------------------- properties: hard delete and restore --
\* one of the two requests is a hard delete and the other a restore of the same comment,
\* and both arrived while the post's comment_count was the number of its comments that
\* are not soft-deleted
DeleteRestoreRace ==
  /\ \E p, q \in Procs : /\ procs[p].op = "hard_delete_comment"
                         /\ procs[q].op = "restore_comment"
                         /\ procs[p].target_id = procs[q].target_id
  /\ \A p \in Procs : procs[p].count = 0

\* C30 (as stated): when hardDeleteComment(cid) runs concurrently with restoreComment(cid)
\* on a soft-deleted comment, with their repository steps interleaved, no comment whose
\* deleted_at is null at the moment of removal is physically deleted, and after both
\* complete the post's comment_count equals the number of non-soft-deleted comments that
\* remain on the post.
C30_Original ==
  DeleteRestoreRace
    => /\ \A p \in Procs : ~procs[p].removed_live
       /\ BothDone => \A q \in DOMAIN post_stats :
                        post_stats[q].comment_count = Cardinality(LiveComments(q))

====
